---- MODULE Spec2Model ----
(***************************************************************************)
(* A model of lwau.py: the Version class, the Mod check unit (construction,*)
(* check_update, find_download and its helpers, update) and the main()     *)
(* driver with its exit statuses.                                          *)
(*                                                                         *)
(* Conventions                                                             *)
(*   - Python's None for a version field is the empty tuple <<>>, an       *)
(*     integer n is the one-element tuple <<n>>.                           *)
(*   - A Python str is a sequence of one-character strings; URLs are       *)
(*     records of such sequences over an alphabet of words.                *)
(*   - A call that can raise returns a record whose field exc names the    *)
(*     exception ("" when the call returned normally).                     *)
(***************************************************************************)
EXTENDS Integers, Sequences, FiniteSets, TLC

VARIABLES
    va, vb,          \* two Version objects under comparison
    vres,            \* results of the last Version operation applied
    vpc,             \* which Version operation was applied last
    file,            \* one manifest file with the network behind it
    mod,             \* the Mod object built from it
    ret,             \* result of the last Mod method called
    mpc,             \* which Mod method was called last
    argv,            \* main: the parsed command line
    disk,            \* main: GameData, PluginData/lwau.json, the archives saved
    settings,        \* main: the global settings
    pc,              \* main: where the run is
    idx,             \* main: how many manifests find_installed_mods has yielded
    count,           \* main: need_updating / updates_failed
    exit_status,     \* main: the status the process exited with, None while it runs
    crash,           \* main: the exception that escaped main, if any
    stdout,          \* main: the lines printed
    opened,          \* main: the pages opened in the browser
    trace            \* main: per manifest processed, what was observed of it

versionVars == <<va, vb, vres, vpc>>

modVars == <<file, mod, ret, mpc>>

mainVars ==
    <<argv, disk, settings, pc, idx, count, exit_status, crash, stdout, opened, trace>>

vars == <<va, vb, vres, vpc, file, mod, ret, mpc,
          argv, disk, settings, pc, idx, count, exit_status, crash, stdout, opened, trace>>

-----------------------------------------------------------------------------
(* Bounds of the model *)

MaxField == 1

-----------------------------------------------------------------------------
(* Python values *)

None == <<>>

Some(n) == <<n>>

IsNone(x) == x = <<>>

Val(x) == x[1]

NoExc == ""

Raised(r) == r.exc # NoExc

-----------------------------------------------------------------------------
(* str and int conversions *)

Digits == <<"0", "1", "2", "3", "4", "5", "6", "7", "8", "9">>

Base == 10

RECURSIVE IntToStr(_)
IntToStr(n) ==
    IF n < Base THEN <<Digits[n + 1]>>
    ELSE IntToStr(n \div Base) \o <<Digits[(n % Base) + 1]>>

IsDigit(c) == \E i \in 1..Len(Digits) : Digits[i] = c

DigitVal(c) == (CHOOSE i \in 1..Len(Digits) : Digits[i] = c) - 1

RECURSIVE DigitsToInt(_)
DigitsToInt(s) ==
    IF Len(s) = 0 THEN 0
    ELSE DigitsToInt(SubSeq(s, 1, Len(s) - 1)) * Base + DigitVal(s[Len(s)])

\* int(s) for s over the model's alphabet: ValueError unless s is a
\* non-empty run of decimal digits.
ParseInt(s) ==
    IF Len(s) > 0 /\ \A i \in 1..Len(s) : IsDigit(s[i])
    THEN [exc |-> NoExc, val |-> DigitsToInt(s)]
    ELSE [exc |-> "ValueError", val |-> 0]

\* s.split(sep) for a one-character separator
RECURSIVE Split(_, _)
Split(s, sep) ==
    IF \A i \in 1..Len(s) : s[i] # sep THEN <<s>>
    ELSE LET k == CHOOSE i \in 1..Len(s) :
                      s[i] = sep /\ \A j \in 1..(i - 1) : s[j] # sep
         IN  <<SubSeq(s, 1, k - 1)>> \o Split(SubSeq(s, k + 1, Len(s)), sep)

\* sep.join(parts)
RECURSIVE Join(_, _)
Join(parts, sep) ==
    IF Len(parts) = 0 THEN <<>>
    ELSE IF Len(parts) = 1 THEN parts[1]
    ELSE parts[1] \o <<sep>> \o Join(Tail(parts), sep)

\* needle in hay (substring test)
Contains(hay, needle) ==
    \E i \in 1..(Len(hay) - Len(needle) + 1) :
        SubSeq(hay, i, i + Len(needle) - 1) = needle

\* s.endswith(suffix)
EndsWith(s, suffix) ==
    /\ Len(s) >= Len(suffix)
    /\ SubSeq(s, Len(s) - Len(suffix) + 1, Len(s)) = suffix

-----------------------------------------------------------------------------
(* class Version *)

MkVersion(ma, mi, pa, bu) == [major |-> ma, minor |-> mi, patch |-> pa, build |-> bu]

NoVersion == MkVersion(None, None, None, None)

NumFields == 4

\* Version.__init__, mapping branch: dict.get gives None for an absent key
MapGet(m, k) == IF k \in DOMAIN m THEN Some(m[k]) ELSE None

VersionFromMapping(m) ==
    [exc |-> NoExc,
     v   |-> MkVersion(MapGet(m, "MAJOR"), MapGet(m, "MINOR"),
                       MapGet(m, "PATCH"), MapGet(m, "BUILD"))]

\* Version.__init__, str branch: zip_longest pairs the four member names
\* with the lazily converted parts; a part that is no integer raises
\* ValueError when it is reached, a fifth part is set on member None,
\* which raises TypeError.
RECURSIVE StrBranchExc(_, _)
StrBranchExc(parts, i) ==
    IF i > Len(parts) THEN NoExc
    ELSE IF Raised(ParseInt(parts[i])) THEN "ValueError"
    ELSE IF i > NumFields THEN "TypeError"
    ELSE StrBranchExc(parts, i + 1)

StrBranchField(parts, i) ==
    IF i <= Len(parts) THEN Some(ParseInt(parts[i]).val) ELSE None

VersionFromStr(s) ==
    LET parts == Split(s, ".")
        e     == StrBranchExc(parts, 1)
    IN  IF e # NoExc THEN [exc |-> e, v |-> NoVersion]
        ELSE [exc |-> NoExc,
              v   |-> MkVersion(StrBranchField(parts, 1), StrBranchField(parts, 2),
                                StrBranchField(parts, 3), StrBranchField(parts, 4))]

\* Version.__init__, numbers.Integral branch: the right-hand side reads the
\* name `major`, which is no parameter and no global: NameError.
VersionFromInts(major_or_object, minor, patch, build) ==
    [exc |-> "NameError", v |-> NoVersion]

\* Version.__init__ on a tagged argument; any other type raises TypeError
Version__init__(arg) ==
    CASE arg.kind = "mapping" -> VersionFromMapping(arg.m)
      [] arg.kind = "str"     -> VersionFromStr(arg.s)
      [] arg.kind = "int"     -> VersionFromInts(arg.i[1], arg.i[2], arg.i[3], arg.i[4])
      [] OTHER                -> [exc |-> "TypeError", v |-> NoVersion]

\* Version.__eq__
VersionEq(self, other) ==
    /\ self.major = other.major
    /\ self.minor = other.minor
    /\ self.patch = other.patch
    /\ self.build = other.build

numbers_fuzzy_equal(x, y) ==
    \/ x = y
    \/ (x = Some(0) /\ IsNone(y))
    \/ (IsNone(x) /\ y = Some(0))

\* Version.fuzzy_equals
fuzzy_equals(self, other) ==
    /\ numbers_fuzzy_equal(self.major, other.major)
    /\ numbers_fuzzy_equal(self.minor, other.minor)
    /\ numbers_fuzzy_equal(self.patch, other.patch)
    /\ numbers_fuzzy_equal(self.build, other.build)

\* mutant of cmp_numbers: an unset field counted as 0 instead of -1
cmp_numbers_unset_as_zero(left, right) ==
    LET l == IF IsNone(left) THEN 0 ELSE Val(left)
        r == IF IsNone(right) THEN 0 ELSE Val(right)
    IN  IF l < r THEN -1 ELSE IF l = r THEN 0 ELSE 1

cmp_numbers(left, right) ==
    LET l == IF IsNone(left) THEN -1 ELSE Val(left)
        r == IF IsNone(right) THEN -1 ELSE Val(right)
    IN  IF l < r THEN -1 ELSE IF l = r THEN 0 ELSE 1

\* Python's `x or y` on integers
PyOr(x, y) == IF x # 0 THEN x ELSE y

\* Version.__lt__
VersionLt(self, other) ==
    PyOr(cmp_numbers(self.major, other.major),
         PyOr(cmp_numbers(self.minor, other.minor),
              PyOr(cmp_numbers(self.patch, other.patch),
                   cmp_numbers(self.build, other.build)))) = -1

\* functools.total_ordering derives __gt__ from __lt__ and __eq__
VersionGt(self, other) == ~VersionLt(self, other) /\ ~VersionEq(self, other)

\* Version.__str__
VersionStr(self) ==
    LET all  == <<self.major, self.minor, self.patch, self.build>>
        kept == SelectSeq(all, LAMBDA p : ~IsNone(p))
    IN  Join([i \in 1..Len(kept) |-> IntToStr(Val(kept[i]))], ".")

-----------------------------------------------------------------------------
(* URLs, JSON documents and the network *)

\* a file under a directory: GameData/<base>.<ext>
MkPath(dir, base, ext) == [dir |-> dir, base |-> base, ext |-> ext]

NoPath == MkPath("", 0, "")

ManifestPath(i) == MkPath("GameData", i, "version")

MkUrl(scheme, host, path) == [scheme |-> scheme, host |-> host, path |-> path]

NoUrl == MkUrl("", <<>>, <<>>)

\* the URL as one string, word by word
UrlWords(u) == <<u.scheme>> \o u.host \o u.path

\* pathlib.PurePosixPath(path).parts of an absolute path: the root, then
\* the segments
PathParts(path) == <<"/">> \o path

\* d[k] on a JSON object: the keys present are d.keys
HasKey(d, k) == k \in d.keys

NoData ==
    [keys |-> {}, NAME |-> <<>>, VERSION |-> [kind |-> "none"], URL |-> NoUrl,
     GITHUB |-> [USERNAME |-> "", REPOSITORY |-> ""], DOWNLOAD |-> NoUrl]

\* What the network answers to a GET: an error, a JSON document, a body
\* that is no JSON, or an archive (with its Content-disposition header and
\* the URL it was finally served from).
Response(exc, json, body, disposition, url) ==
    [exc |-> exc, json |-> json, body |-> body, disposition |-> disposition, url |-> url]

FailResp == Response("URLError", FALSE, NoData, None, NoUrl)

JsonResp(body) == Response(NoExc, TRUE, body, None, NoUrl)

BadJsonResp == Response(NoExc, FALSE, NoData, None, NoUrl)

FileResp(disposition, url) == Response(NoExc, FALSE, NoData, disposition, url)

\* urlopen(u): the response the network gives, URLError when it gives none
urlopen(net, u) == IF u \in DOMAIN net THEN net[u] ELSE FailResp

\* json_load_from_url(u): urlopen, then json.load (ValueError on a body
\* that is no JSON)
json_load_from_url(net, u) ==
    LET r == urlopen(net, u)
    IN  IF Raised(r) THEN [exc |-> r.exc, body |-> NoData]
        ELSE IF ~r.json THEN [exc |-> "ValueError", body |-> NoData]
        ELSE [exc |-> NoExc, body |-> r.body]

-----------------------------------------------------------------------------
(* class Mod *)

NoMod(path, net) ==
    [local_version_path |-> path, net |-> net, exception |-> NoExc, attrs |-> {},
     local_version_data |-> NoData, installed_version |-> NoVersion,
     master_version_url |-> NoUrl, master_version_data |-> NoData,
     available_version |-> NoVersion]

\* the attributes __init__ assigns, in the order it assigns them
AttrOrder ==
    <<"local_version_data", "installed_version", "master_version_url",
      "master_version_data", "available_version">>

\* mutant of Captured: the except clause drops the exception
Captured_dropped(assigned, e) == [assigned |-> assigned, exc |-> NoExc]

\* the except clause at the point where `assigned` attributes are set: the
\* exception is captured, the attributes assigned so far stay
Captured(assigned, e) == [assigned |-> assigned, exc |-> e]

\* Mod.__init__
Mod__init__(f) ==
    LET data == f.local.body
        iv   == Version__init__(data.VERSION)
        md   == json_load_from_url(f.net, data.URL)
        av   == Version__init__(md.body.VERSION)
        end  == IF Raised(f.local) THEN Captured(0, f.local.exc)
                ELSE IF ~HasKey(data, "VERSION") THEN Captured(1, "KeyError")
                ELSE IF Raised(iv) THEN Captured(1, iv.exc)
                ELSE IF ~HasKey(data, "URL") THEN Captured(2, "KeyError")
                ELSE IF Raised(md) THEN Captured(3, md.exc)
                ELSE IF ~HasKey(md.body, "VERSION") THEN Captured(4, "KeyError")
                ELSE IF Raised(av) THEN Captured(4, av.exc)
                ELSE [assigned |-> Len(AttrOrder), exc |-> NoExc]
        n    == end.assigned
    IN  [local_version_path  |-> f.path,
         net                 |-> f.net,
         exception           |-> end.exc,
         attrs               |-> {AttrOrder[i] : i \in 1..n},
         local_version_data  |-> IF n >= 1 THEN data ELSE NoData,
         installed_version   |-> IF n >= 2 THEN iv.v ELSE NoVersion,
         master_version_url  |-> IF n >= 3 THEN data.URL ELSE NoUrl,
         master_version_data |-> IF n >= 4 THEN md.body ELSE NoData,
         available_version   |-> IF n >= 5 THEN av.v ELSE NoVersion]

Line(msg, a, b) == [msg |-> msg, a |-> a, b |-> b]

\* mutant of check_update: >= in place of >
check_update_or_equal(self) ==
    IF self.exception # NoExc
    THEN [exc |-> NoExc, ret |-> FALSE, out |-> <<Line("Error", <<>>, <<>>)>>]
    ELSE IF ~HasKey(self.local_version_data, "NAME")
    THEN [exc |-> "KeyError", ret |-> FALSE, out |-> <<>>]
    ELSE [exc |-> NoExc,
          ret |-> ~VersionLt(self.available_version, self.installed_version),
          out |-> <<Line("Installed/Available",
                         VersionStr(self.installed_version),
                         VersionStr(self.available_version))>>]

\* Mod.check_update: the exception raised (if any), the line printed and
\* the value returned.  Line 56 reads local_version_data["NAME"] outside any
\* try block: KeyError for a manifest without that key.
check_update(self) ==
    IF self.exception # NoExc
    THEN [exc |-> NoExc, ret |-> FALSE, out |-> <<Line("Error", <<>>, <<>>)>>]
    ELSE IF ~HasKey(self.local_version_data, "NAME")
    THEN [exc |-> "KeyError", ret |-> FALSE, out |-> <<>>]
    ELSE [exc |-> NoExc,
          ret |-> VersionGt(self.available_version, self.installed_version),
          out |-> <<Line("Installed/Available",
                         VersionStr(self.installed_version),
                         VersionStr(self.available_version))>>]

\* What a lookup hands back: the exception it raised (if any), the value
\* returned, the lines printed and the URLs requested.
Lookup(exc, r, out, reqs) == [exc |-> exc, ret |-> r, out |-> out, reqs |-> reqs]

NoLookup == Lookup(NoExc, None, <<>>, <<>>)

GithubReleasesUrl(username, repo) ==
    MkUrl("https", <<"api", "github", "com">>, <<"repos", username, repo, "releases">>)

SpacedockModUrl(mod_id) ==
    MkUrl("http", <<"spacedock", "info">>, <<"api", "mod", mod_id>>)

\* mutant of FirstMatchingRelease: the tag must equal the version string
FirstMatchingRelease_equal(releases, wanted) ==
    LET hit(i) == releases[i].tag_name = wanted
    IN  IF \E i \in 1..Len(releases) : hit(i)
        THEN CHOOSE i \in 1..Len(releases) : hit(i) /\ \A j \in 1..(i - 1) : ~hit(j)
        ELSE 0

\* next(r for r in releases if wanted in r["tag_name"]): the index of the
\* first such release, 0 for StopIteration
FirstMatchingRelease(releases, wanted) ==
    LET hit(i) == Contains(releases[i].tag_name, wanted)
    IN  IF \E i \in 1..Len(releases) : hit(i)
        THEN CHOOSE i \in 1..Len(releases) : hit(i) /\ \A j \in 1..(i - 1) : ~hit(j)
        ELSE 0

ZipSuffix == <<".", "z", "i", "p">>

\* next(a for a in assets if a["name"].endswith(".zip")): the index of the
\* first such asset, 0 for StopIteration
FirstZipAsset(assets) ==
    LET hit(i) == EndsWith(assets[i].name, ZipSuffix)
    IN  IF \E i \in 1..Len(assets) : hit(i)
        THEN CHOOSE i \in 1..Len(assets) : hit(i) /\ \A j \in 1..(i - 1) : ~hit(j)
        ELSE 0

\* Mod.find_github_download
find_github_download(self, username, repo) ==
    LET u    == IF IsNone(username) THEN self.master_version_data.GITHUB.USERNAME
                ELSE Val(username)
        r    == IF IsNone(repo) THEN self.master_version_data.GITHUB.REPOSITORY
                ELSE Val(repo)
        url  == GithubReleasesUrl(u, r)
        data == json_load_from_url(self.net, url)
    IN  IF Raised(data) THEN Lookup(data.exc, None, <<>>, <<url>>)
        ELSE
        LET wanted == VersionStr(self.available_version)
            ri     == FirstMatchingRelease(data.body, wanted)
        IN  IF ri = 0
            THEN Lookup(NoExc, None, <<Line("GitHub: No tag matching", wanted, <<>>)>>,
                        <<url>>)
            ELSE
            LET wanted_release == data.body[ri]
                ai == FirstZipAsset(wanted_release.assets)
            IN  IF ai = 0
                THEN Lookup(NoExc, None,
                            <<Line("GitHub: No .zip archive for release",
                                   wanted_release.tag_name, <<>>)>>, <<url>>)
                ELSE Lookup(NoExc, Some(wanted_release.assets[ai].browser_download_url),
                            <<>>, <<url>>)

\* Version(**{name: value}): a call with one keyword argument.  __init__
\* takes major_or_object, minor, patch and build; any other keyword is a
\* TypeError, and so is a call without major_or_object.
VersionCallKw(name, value) ==
    IF name = "major_or_object" THEN Version__init__(value)
    ELSE [exc |-> "TypeError", v |-> NoVersion]

\* next(v for v in versions if available.fuzzy_equals(Version(str=...)))
\* from index i on: the index found, 0 for StopIteration, or the exception
\* the generator raised on the way
RECURSIVE SpacedockNext(_, _, _)
SpacedockNext(versions, i, available) ==
    IF i > Len(versions) THEN [exc |-> NoExc, idx |-> 0]
    ELSE LET v == VersionCallKw("str", [kind |-> "str",
                                        s |-> versions[i].friendly_version])
         IN  IF Raised(v) THEN [exc |-> v.exc, idx |-> 0]
             ELSE IF fuzzy_equals(available, v.v) THEN [exc |-> NoExc, idx |-> i]
             ELSE SpacedockNext(versions, i + 1, available)

\* Mod.find_spacedock_download
find_spacedock_download(self) ==
    LET download_page == self.master_version_data.DOWNLOAD
        parts         == PathParts(download_page.path)
    IN  IF Len(parts) < 3 THEN Lookup("IndexError", None, <<>>, <<>>)
        ELSE
        LET mod_id   == parts[3]
            url      == SpacedockModUrl(mod_id)
            mod_data == json_load_from_url(self.net, url)
        IN  IF Raised(mod_data) THEN Lookup(mod_data.exc, None, <<>>, <<url>>)
            ELSE
            LET n == SpacedockNext(mod_data.body, 1, self.available_version)
            IN  IF Raised(n) THEN Lookup(n.exc, None, <<>>, <<url>>)
                ELSE IF n.idx = 0
                THEN Lookup(NoExc, None,
                            <<Line("No Spacedock download for version",
                                   VersionStr(self.available_version), <<>>)>>, <<url>>)
                ELSE Lookup(NoExc,
                            Some(MkUrl("http", <<"spacedock", "info">>,
                                       mod_data.body[n.idx].download_path)),
                            <<>>, <<url>>)

\* find_download, lines 96-104: the owner and the repository are read off
\* the download page's path
GithubFromDownloadPage(self, download_url) ==
    LET parts == PathParts(download_url.path)
    IN  IF Len(parts) < 3 THEN Lookup("IndexError", None, <<>>, <<>>)
        ELSE find_github_download(self, Some(parts[2]), Some(parts[3]))

\* What find_download leaves behind: self.archive_url, the lines printed,
\* the URLs requested, the pages opened in the browser.
Found(exc, archive_url, out, reqs, browser) ==
    [exc |-> exc, archive_url |-> archive_url, out |-> out, reqs |-> reqs,
     browser |-> browser]

\* Mod.find_download, the DOWNLOAD branch (lines 89-108); g is what the
\* GITHUB branch did before it
find_download_page(self, g) ==
    LET md           == self.master_version_data
        download_url == md.DOWNLOAD
        s == IF Contains(UrlWords(download_url), <<"spacedock">>)
             THEN find_spacedock_download(self) ELSE NoLookup
        out1  == g.out \o s.out
        reqs1 == g.reqs \o s.reqs
    IN  IF Raised(s) THEN Found(s.exc, None, out1, reqs1, <<>>)
        ELSE IF ~IsNone(s.ret) THEN Found(NoExc, s.ret, out1, reqs1, <<>>)
        ELSE
        LET g2 == IF /\ Contains(UrlWords(download_url), <<"github">>)
                     /\ ~HasKey(md, "GITHUB")
                  THEN GithubFromDownloadPage(self, download_url) ELSE NoLookup
            out2  == out1 \o g2.out
            reqs2 == reqs1 \o g2.reqs
        IN  IF Raised(g2) THEN Found(g2.exc, None, out2, reqs2, <<>>)
            ELSE IF ~IsNone(g2.ret) THEN Found(NoExc, g2.ret, out2, reqs2, <<>>)
            ELSE Found(NoExc, None,
                       out2 \o <<Line("Could not find an archive for", <<>>, <<>>)>>,
                       reqs2, <<download_url>>)

\* mutant of find_download: the DOWNLOAD branch taken only without GITHUB
find_download_elif(self) ==
    LET md == self.master_version_data
    IN  IF HasKey(md, "GITHUB")
        THEN LET g == find_github_download(self, None, None)
             IN  Found(g.exc, g.ret, g.out, g.reqs, <<>>)
        ELSE IF HasKey(md, "DOWNLOAD") THEN find_download_page(self, NoLookup)
        ELSE IF ~HasKey(self.local_version_data, "NAME")
        THEN Found("KeyError", None, <<>>, <<>>, <<>>)
        ELSE Found(NoExc, None,
                   <<Line("did not specify a download page.", <<>>, <<>>)>>, <<>>, <<>>)

\* Mod.find_download.  The else branch (line 112) reads
\* local_version_data["NAME"]: KeyError for a manifest without that key.
find_download(self) ==
    LET md == self.master_version_data
        g  == IF HasKey(md, "GITHUB") THEN find_github_download(self, None, None)
              ELSE NoLookup
    IN  IF Raised(g) THEN Found(g.exc, None, g.out, g.reqs, <<>>)
        ELSE IF ~IsNone(g.ret) THEN Found(NoExc, g.ret, g.out, g.reqs, <<>>)
        ELSE IF HasKey(md, "DOWNLOAD") THEN find_download_page(self, g)
        ELSE IF ~HasKey(self.local_version_data, "NAME")
        THEN Found("KeyError", None, g.out, g.reqs, <<>>)
        ELSE Found(NoExc, None,
                   g.out \o <<Line("did not specify a download page.", <<>>, <<>>)>>,
                   g.reqs, <<>>)

\* Mod.download_archive_to: the exception raised (if any), self.local_archive
\* and the archives on disk afterwards
download_archive_to(self, archive_url, dest_dir, archives) ==
    LET response == urlopen(self.net, archive_url)
    IN  IF Raised(response)
        THEN [exc |-> response.exc, local_archive |-> NoPath, archives |-> archives]
        ELSE
        LET disposition == response.disposition
        IN  \* re.search(...) is None when the header names no file
            IF ~IsNone(disposition) /\ IsNone(Val(disposition).filename)
            THEN [exc |-> "AttributeError", local_archive |-> NoPath, archives |-> archives]
            ELSE
            LET filename == IF ~IsNone(disposition) THEN Val(Val(disposition).filename)
                            ELSE response.url.path[Len(response.url.path)]
                local_archive == MkPath(dest_dir, filename, "")
            IN  \* open(..., 'xb') refuses a file that exists
                IF local_archive \in archives
                THEN [exc |-> "FileExistsError", local_archive |-> local_archive,
                      archives |-> archives]
                ELSE [exc |-> NoExc, local_archive |-> local_archive,
                      archives |-> archives \cup {local_archive}]

\* What update leaves behind: the exception raised (if any), the value
\* returned, the lines printed, the pages opened, the archives on disk.
Updated(exc, r, out, browser, archives) ==
    [exc |-> exc, ret |-> r, out |-> out, browser |-> browser, archives |-> archives]

\* the one element of a singleton
The(S) == CHOOSE x \in S : TRUE

\* Mod.update, after self.find_download() has left fd behind
update_found(self, fd, sett, archives) ==
        IF Raised(fd) THEN Updated(fd.exc, FALSE, fd.out, fd.browser, archives)
        ELSE IF IsNone(fd.archive_url)
        THEN Updated(NoExc, FALSE, fd.out, fd.browser, archives)
        ELSE IF ~HasKey(sett, "recipes")
        THEN Updated("KeyError", FALSE, fd.out, fd.browser, archives)
        ELSE IF self.local_version_path \notin sett.recipes
        THEN IF ~HasKey(sett, "download_dir")
             THEN Updated(NoExc, FALSE,
                          fd.out \o <<Line("No download location specified.", <<>>, <<>>)>>,
                          fd.browser, archives)
             ELSE LET d == download_archive_to(self, Val(fd.archive_url),
                                               sett.download_dir, archives)
                  IN  IF Raised(d) THEN Updated(d.exc, FALSE, fd.out, fd.browser, d.archives)
                      ELSE Updated(NoExc, FALSE,
                                   fd.out \o <<Line("Downloaded", <<>>, <<>>)>>,
                                   fd.browser, d.archives)
        ELSE Updated(NoExc, TRUE, fd.out, fd.browser, archives)

\* Mod.update
update(self, sett, archives) ==
    The({update_found(self, fd, sett, archives) : fd \in {find_download(self)}})

-----------------------------------------------------------------------------
(* Settings, the GameData walk and the command line *)

Settings(keys, download_dir, recipes) ==
    [keys |-> keys, download_dir |-> download_dir, recipes |-> recipes]

\* load_settings, the except branch: {'recipes': {}}
DefaultSettings == Settings({"recipes"}, "", {})

NoSettingsFile == [exc |-> "FileNotFoundError", body |-> DefaultSettings]

\* load_settings: the file's content, the default when it cannot be read
load_settings(settings_file) ==
    IF Raised(settings_file) THEN DefaultSettings ELSE settings_file.body

\* settings["download_dir"] = d
SetDownloadDir(sett, d) ==
    [sett EXCEPT !.keys = @ \cup {"download_dir"}, !.download_dir = d]

\* find_installed_mods: the files under GameData whose name ends in
\* ".version", in the order of the walk
find_installed_mods(game_data) ==
    SelectSeq(game_data, LAMBDA f : f.path.ext = "version")

Args(verb, target, target_file, target_dir, download_dir) ==
    [verb |-> verb, target |-> target, target_file |-> target_file,
     target_dir |-> target_dir, download_dir |-> download_dir]

\* mutant of ExitStatusFor: the count itself as the exit status
ExitStatusFor_count(n) == n

\* main, lines 310-313 and 332-337: 1 when the count is non-zero, else 0
ExitStatusFor(n) == IF n # 0 THEN 1 ELSE 0

\* what was observed of one manifest: whether its Mod captured an error,
\* what check_update returned, whether update returned True, whether an
\* archive was saved
Seen(m, update_available, updated, saved) ==
    [path |-> m.local_version_path, error |-> m.exception # NoExc,
     update_available |-> update_available, updated |-> updated, saved |-> saved]

-----------------------------------------------------------------------------
(* Inputs *)

FieldVals == {None} \cup {Some(n) : n \in 0..MaxField}

\* every Version whose fields are unset or in 0..MaxField
Versions ==
    {MkVersion(ma, mi, pa, bu) : ma \in FieldVals, mi \in FieldVals,
                                 pa \in FieldVals, bu \in FieldVals}

\* a version as the three constructor routes are handed it
IntArg(v) == [kind |-> "int", i |-> <<v.major, v.minor, v.patch, v.build>>]

MappingOf(v) ==
    LET f(k) == CASE k = "MAJOR" -> v.major [] k = "MINOR" -> v.minor
                  [] k = "PATCH" -> v.patch [] k = "BUILD" -> v.build
    IN  [k \in {x \in {"MAJOR", "MINOR", "PATCH", "BUILD"} : ~IsNone(f(x))} |-> Val(f(k))]

MappingArg(v) == [kind |-> "mapping", m |-> MappingOf(v)]

RECURSIVE DottedFrom(_, _)
DottedFrom(fs, i) ==
    IF i > Len(fs) \/ IsNone(fs[i]) THEN <<>>
    ELSE (IF i > 1 THEN <<".">> ELSE <<>>) \o IntToStr(Val(fs[i])) \o DottedFrom(fs, i + 1)

\* the dotted string of the leading set fields
Dotted(v) == DottedFrom(<<v.major, v.minor, v.patch, v.build>>, 1)

StrArg(v) == [kind |-> "str", s |-> Dotted(v)]

\* major set, and no set field after an unset one
TrailingUnset(v) ==
    /\ ~IsNone(v.major)
    /\ (IsNone(v.minor) => IsNone(v.patch))
    /\ (IsNone(v.patch) => IsNone(v.build))

-----------------------------------------------------------------------------
(* The Version class on its own: every pair of versions, compared, and     *)
(* every version built along the three constructor routes                   *)

IdleFile == [path |-> NoPath, local |-> [exc |-> NoExc, body |-> NoData], net |-> <<>>]

ModIdle ==
    /\ file = IdleFile
    /\ mod = NoMod(NoPath, <<>>)
    /\ ret = [exc |-> NoExc, ret |-> FALSE, out |-> <<>>]
    /\ mpc = "idle"

MainIdle ==
    /\ argv = Args("", "", IdleFile, "", None)
    /\ disk = [game_data |-> <<>>, settings_file |-> NoSettingsFile,
               plugin_data |-> FALSE, archives |-> {}]
    /\ settings = DefaultSettings
    /\ pc = "idle"
    /\ idx = 0
    /\ count = 0
    /\ exit_status = None
    /\ crash = NoExc
    /\ stdout = <<>>
    /\ opened = <<>>
    /\ trace = <<>>

VersionIdle ==
    /\ va = NoVersion
    /\ vb = NoVersion
    /\ vres = [op |-> "none"]
    /\ vpc = "idle"

InitVersion ==
    /\ va \in Versions
    /\ vb \in Versions
    /\ vres = [op |-> "none"]
    /\ vpc = "init"
    /\ ModIdle
    /\ MainIdle

Compare ==
    /\ vpc = "init"
    /\ vres' = [op |-> "compare",
                lt |-> VersionLt(va, vb), eq |-> VersionEq(va, vb),
                gt |-> VersionGt(va, vb), fuzzy |-> fuzzy_equals(va, vb)]
    /\ vpc' = "compared"
    /\ UNCHANGED <<va, vb, modVars, mainVars>>

Construct ==
    /\ vpc = "init"
    /\ TrailingUnset(va)
    /\ vres' = [op |-> "construct",
                byInts    |-> Version__init__(IntArg(va)),
                byMapping |-> Version__init__(MappingArg(va)),
                byStr     |-> Version__init__(StrArg(va))]
    /\ vpc' = "constructed"
    /\ UNCHANGED <<va, vb, modVars, mainVars>>

NextVersion == Compare \/ Construct

SpecVersion == InitVersion /\ [][NextVersion]_vars

-----------------------------------------------------------------------------
(* One Mod: construction, then check_update *)

\* the versions a manifest may carry: as a mapping, as a dotted string, as
\* a bare integer, or as a list (no type Version accepts)
ManifestVersions ==
    {MappingArg(v) : v \in {x \in Versions : IsNone(x.build)}}
        \cup {StrArg(MkVersion(Some(1), Some(0), None, None)),
              [kind |-> "str", s |-> <<"1", ".", "x">>],
              IntArg(MkVersion(Some(1), None, None, None)),
              [kind |-> "list"]}

MasterUrl == MkUrl("http", <<"example", "org">>, <<"mod", "version">>)

ApiUser == "user"

ApiRepo == "repo"

\* a manifest: the JSON object of a .version file.  Every manifest carries
\* NAME, the key by which the format names the mod; VERSION, URL, GITHUB and
\* DOWNLOAD are present as `keys` says.
Doc(keys, version, download) ==
    [keys |-> keys, NAME |-> <<"m", "o", "d">>, VERSION |-> version, URL |-> MasterUrl,
     GITHUB |-> [USERNAME |-> ApiUser, REPOSITORY |-> ApiRepo], DOWNLOAD |-> download]

LocalFiles ==
    {[exc |-> e, body |-> NoData] : e \in {"FileNotFoundError", "ValueError"}}
        \cup {[exc |-> NoExc, body |-> Doc({"NAME"} \cup k, NoData.VERSION, NoUrl)]
                 : k \in SUBSET {"URL"}}
        \cup {[exc |-> NoExc, body |-> Doc({"NAME", "VERSION"} \cup k, v, NoUrl)]
                 : k \in SUBSET {"URL"}, v \in ManifestVersions}

RemoteManifests ==
    {FailResp, BadJsonResp, JsonResp(Doc({"NAME"}, NoData.VERSION, NoUrl))}
        \cup {JsonResp(Doc({"NAME", "VERSION"}, v, NoUrl)) : v \in ManifestVersions}

ModFiles ==
    {[path |-> ManifestPath(1), local |-> l, net |-> (MasterUrl :> r)]
        : l \in LocalFiles, r \in RemoteManifests}

InitMod ==
    /\ file \in ModFiles
    /\ mod = NoMod(file.path, file.net)
    /\ ret = [exc |-> NoExc, ret |-> FALSE, out |-> <<>>]
    /\ mpc = "new"
    /\ VersionIdle
    /\ MainIdle

NewMod ==
    /\ mpc = "new"
    /\ mod' = Mod__init__(file)
    /\ mpc' = "built"
    /\ UNCHANGED <<file, ret, versionVars, mainVars>>

CheckUpdate ==
    /\ mpc = "built"
    /\ ret' = check_update(mod)
    /\ mpc' = "checked"
    /\ UNCHANGED <<file, mod, versionVars, mainVars>>

NextMod == NewMod \/ CheckUpdate

SpecMod == InitMod /\ [][NextMod]_vars

-----------------------------------------------------------------------------
(* Download resolution for one Mod whose check showed an update *)

MaxReleases == 2

MaxSdVersions == 2

Str_v210 == <<"v", "2", ".", "1", ".", "0">>

Str_v10 == <<"v", "1", ".", "0">>

Str_v21 == <<"v", "2", ".", "1">>

Tags == {Str_v210, Str_v10, Str_v21}

ArchiveUrl(name) == MkUrl("https", <<"github", "com">>, <<"dl", name>>)

Asset(name, fname) == [name |-> name, browser_download_url |-> ArchiveUrl(fname)]

ZipA == Asset(<<"a", ".", "z", "i", "p">>, "a.zip")

ZipB == Asset(<<"b", ".", "z", "i", "p">>, "b.zip")

Txt == Asset(<<"a", ".", "t", "x", "t">>, "a.txt")

NoDot == Asset(<<"z", "i", "p">>, "zip")

AssetLists == {<<>>, <<ZipA>>, <<Txt>>, <<Txt, ZipA>>, <<ZipB, ZipA>>, <<NoDot, ZipB>>}

Releases == {[tag_name |-> t, assets |-> al] : t \in Tags, al \in AssetLists}

SeqsUpTo(S, n) == {SubSeq(s, 1, k) : s \in [1..n -> S], k \in 0..n}

\* what the releases API may answer
GithubAnswers ==
    {FailResp, BadJsonResp} \cup {JsonResp(l) : l \in SeqsUpTo(Releases, MaxReleases)}

\* a few of them: a failure, a hit, no tag, no .zip
FewGithubAnswers ==
    {FailResp,
     JsonResp(<<[tag_name |-> Str_v210, assets |-> <<ZipA>>]>>),
     JsonResp(<<[tag_name |-> Str_v21, assets |-> <<ZipA>>]>>),
     JsonResp(<<[tag_name |-> Str_v210, assets |-> <<Txt>>]>>)}

SdEntry(friendly, fname) ==
    [friendly_version |-> friendly, download_path |-> <<"mod", "123", "download", fname>>]

SdEntries ==
    {SdEntry(<<"2", ".", "1">>, "2.1"), SdEntry(<<"2", ".", "1", ".", "0">>, "2.1.0"),
     SdEntry(<<"1">>, "1"), SdEntry(<<"3", ".", "0">>, "3.0")}

\* what the Spacedock API may answer: a failure, or an object of which the
\* body kept here is the list under its "versions" key
SpacedockAnswers ==
    {FailResp} \cup {JsonResp(l) : l \in SeqsUpTo(SdEntries, MaxSdVersions)}

SpacedockPage == MkUrl("http", <<"spacedock", "info">>, <<"mod", "123", "name">>)

SpacedockShortPage == MkUrl("http", <<"spacedock", "info">>, <<"mod">>)

GithubPage == MkUrl("https", <<"github", "com">>, <<ApiUser, ApiRepo, "releases">>)

OtherPage == MkUrl("http", <<"example", "org">>, <<"downloads">>)

DownloadPages == {SpacedockPage, SpacedockShortPage, GithubPage, OtherPage}

AvailableVersions ==
    {MkVersion(Some(2), Some(1), Some(0), None), MkVersion(Some(1), Some(0), None, None)}

InstalledVersion == MkVersion(Some(0), Some(9), None, None)

LocalManifest ==
    [exc |-> NoExc,
     body |-> Doc({"NAME", "VERSION", "URL"}, MappingArg(InstalledVersion), NoUrl)]

\* a manifest file whose remote manifest carries the keys given, with the
\* answers of the two APIs
LocFile(path, keys, av, page, gh, sd) ==
    [path  |-> path,
     local |-> LocalManifest,
     net   |-> (MasterUrl :> JsonResp(Doc({"NAME", "VERSION"} \cup keys, MappingArg(av), page)))
                @@ (GithubReleasesUrl(ApiUser, ApiRepo) :> gh)
                @@ (SpacedockModUrl("123") :> sd)]

\* remote manifests with no DOWNLOAD key, over every answer of the releases API
LocFilesGithub ==
    {LocFile(ManifestPath(1), k, av, NoUrl, gh, FailResp)
        : k \in SUBSET {"GITHUB"}, av \in AvailableVersions, gh \in GithubAnswers}

\* remote manifests with a DOWNLOAD key, over every answer of the Spacedock API
LocFilesDownload ==
    {LocFile(ManifestPath(1), k \cup {"DOWNLOAD"}, av, page, gh, sd)
        : k \in SUBSET {"GITHUB"}, av \in AvailableVersions, page \in DownloadPages,
          gh \in FewGithubAnswers, sd \in SpacedockAnswers}

InitLocate ==
    /\ \/ file \in LocFilesGithub
       \/ file \in LocFilesDownload
    /\ mod = Mod__init__(file)
    /\ ret = [exc |-> NoExc, ret |-> FALSE, out |-> <<>>]
    /\ mpc = "ready"
    /\ VersionIdle
    /\ MainIdle

FindDownload ==
    /\ mpc = "ready"
    /\ check_update(mod).ret
    /\ ret' = find_download(mod)
    /\ mpc' = "located"
    /\ UNCHANGED <<file, mod, versionVars, mainVars>>

FindGithubDownload ==
    /\ mpc = "ready"
    /\ check_update(mod).ret
    /\ HasKey(mod.master_version_data, "GITHUB")
    /\ ret' = find_github_download(mod, None, None)
    /\ mpc' = "github"
    /\ UNCHANGED <<file, mod, versionVars, mainVars>>

FindSpacedockDownload ==
    /\ mpc = "ready"
    /\ check_update(mod).ret
    /\ HasKey(mod.master_version_data, "DOWNLOAD")
    /\ Contains(UrlWords(mod.master_version_data.DOWNLOAD), <<"spacedock">>)
    /\ ret' = find_spacedock_download(mod)
    /\ mpc' = "spacedock"
    /\ UNCHANGED <<file, mod, versionVars, mainVars>>

NextLocate == FindDownload \/ FindGithubDownload \/ FindSpacedockDownload

SpecLocate == InitLocate /\ [][NextLocate]_vars

-----------------------------------------------------------------------------
(* main(): one run of the program *)

MaxMods == 2

NamedArchive == [filename |-> Some("named.zip")]

\* the network behind one manifest: its remote manifest, the two APIs, the
\* archive
World(local, remote, gh, sd, archive) ==
    [path  |-> NoPath,
     local |-> local,
     net   |-> (MasterUrl :> remote)
                @@ (GithubReleasesUrl(ApiUser, ApiRepo) :> gh)
                @@ (SpacedockModUrl("123") :> sd)
                @@ (ArchiveUrl("a.zip") :> archive)]

Remote(keys, page) ==
    JsonResp(Doc({"NAME", "VERSION"} \cup keys,
                 MappingArg(MkVersion(Some(2), Some(1), Some(0), None)), page))

HitListing == JsonResp(<<[tag_name |-> Str_v210, assets |-> <<ZipA>>]>>)

ArchiveResp == FileResp(None, ArchiveUrl("a.zip"))

W_BadLocal == World([exc |-> "ValueError", body |-> NoData], FailResp, FailResp, FailResp, FailResp)

W_RemoteDown == World(LocalManifest, FailResp, FailResp, FailResp, FailResp)

W_UpToDate ==
    World(LocalManifest,
          JsonResp(Doc({"NAME", "VERSION"}, MappingArg(InstalledVersion), NoUrl)),
          FailResp, FailResp, FailResp)

W_GithubHit == World(LocalManifest, Remote({"GITHUB"}, NoUrl), HitListing, FailResp, ArchiveResp)

W_GithubHitNamed ==
    World(LocalManifest, Remote({"GITHUB"}, NoUrl), HitListing, FailResp,
          FileResp(Some(NamedArchive), ArchiveUrl("a.zip")))

W_GithubNoTag ==
    World(LocalManifest, Remote({"GITHUB"}, NoUrl),
          JsonResp(<<[tag_name |-> Str_v21, assets |-> <<ZipA>>]>>), FailResp, FailResp)

W_GithubDown == World(LocalManifest, Remote({"GITHUB"}, NoUrl), FailResp, FailResp, FailResp)

W_Spacedock ==
    World(LocalManifest, Remote({"DOWNLOAD"}, SpacedockPage), FailResp,
          JsonResp(<<SdEntry(<<"2", ".", "1">>, "2.1")>>), FailResp)

W_OtherPage == World(LocalManifest, Remote({"DOWNLOAD"}, OtherPage), FailResp, FailResp, FailResp)

W_NoPage == World(LocalManifest, Remote({}, NoUrl), FailResp, FailResp, FailResp)

Worlds ==
    {W_BadLocal, W_RemoteDown, W_UpToDate, W_GithubHit, W_GithubHitNamed, W_GithubNoTag,
     W_GithubDown, W_Spacedock, W_OtherPage, W_NoPage}

\* the i-th file of the walk: a manifest, or a file of another kind
At(w, i, ext) == [w EXCEPT !.path = MkPath("GameData", i, ext)]

\* the files of a GameData tree in walk order: manifests, and at position j
\* (if any) a file of another kind
GameData(ws, j) ==
    [i \in 1..Len(ws) |-> At(IF i = j THEN W_UpToDate ELSE ws[i], i,
                             IF i = j THEN "cfg" ELSE "version")]

GameDatas ==
    {GameData(SubSeq(ws, 1, k), j)
        : ws \in [1..MaxMods -> Worlds], k \in 0..MaxMods, j \in 0..MaxMods}

\* a named target: a manifest of GameData, or a path that does not exist
Targets ==
    {At(w, 1, "version") : w \in Worlds}
        \cup {At(World([exc |-> "FileNotFoundError", body |-> NoData],
                       FailResp, FailResp, FailResp, FailResp), 1, "version")}

SettingsFiles ==
    {NoSettingsFile,
     [exc |-> NoExc, body |-> Settings({"recipes", "download_dir"}, "dl", {})],
     [exc |-> NoExc, body |-> Settings({"recipes", "download_dir"}, "dl", {ManifestPath(1)})],
     [exc |-> NoExc, body |-> Settings({"recipes"}, "", {ManifestPath(1)})],
     [exc |-> NoExc, body |-> Settings({"download_dir"}, "dl", {})]}

\* the runs: a verb on all of GameData or on one target, with or without -d
CommandLines ==
    {Args(v, "all", IdleFile, "", d) : v \in {"check", "update"}, d \in {None, Some("cli")}}
        \cup {Args(v, "path", t, "", d) :
                 v \in {"check", "update"}, t \in Targets, d \in {None, Some("cli")}}
        \cup {Args("download-to", "path", IdleFile, "dl2", d) : d \in {None, Some("cli")}}

InitMain ==
    /\ argv \in CommandLines
    /\ \E gd \in GameDatas, sf \in SettingsFiles, pd \in BOOLEAN :
          /\ argv.target # "all" => gd = <<>>
          /\ argv.verb # "download-to" => pd = TRUE
          /\ (argv.download_dir # None) => sf \in {NoSettingsFile,
                  [exc |-> NoExc, body |-> Settings({"recipes", "download_dir"}, "dl", {})]}
          /\ disk = [game_data |-> gd, settings_file |-> sf, plugin_data |-> pd,
                     archives |-> {}]
    /\ settings = DefaultSettings
    /\ pc = "start"
    /\ idx = 0
    /\ count = 0
    /\ exit_status = None
    /\ crash = NoExc
    /\ stdout = <<>>
    /\ opened = <<>>
    /\ trace = <<>>
    /\ VersionIdle
    /\ ModIdle

\* sys.exit(status)
Exit(status) ==
    /\ pc' = "exited"
    /\ exit_status' = Some(status)
    /\ crash' = NoExc

\* an exception leaves main: the interpreter prints the traceback and the
\* process ends with status 1
Uncaught(e) ==
    /\ pc' = "exited"
    /\ exit_status' = Some(1)
    /\ crash' = e

\* main, lines 299-303, and the dispatch on the verb and the target
Start ==
    /\ pc = "start"
    /\ settings' = LET s0 == load_settings(disk.settings_file)
                   IN  IF argv.download_dir # None
                       THEN SetDownloadDir(s0, Val(argv.download_dir)) ELSE s0
    /\ pc' = CASE argv.verb = "check" /\ argv.target = "all"  -> "check_all"
               [] argv.verb = "check" /\ argv.target # "all"  -> "check_one"
               [] argv.verb = "update" /\ argv.target = "all" -> "update_all"
               [] argv.verb = "update" /\ argv.target # "all" -> "update_one"
               [] argv.verb = "download-to"                   -> "download_to"
    /\ UNCHANGED <<argv, disk, idx, count, exit_status, crash, stdout, opened, trace,
                   versionVars, modVars>>

\* find_installed_mods yields the next Mod of the walk to the loop of
\* `check all` or `update all`
YieldMod ==
    /\ pc \in {"check_all", "update_all"}
    /\ idx < Len(find_installed_mods(disk.game_data))
    /\ mod' = Mod__init__(find_installed_mods(disk.game_data)[idx + 1])
    /\ idx' = idx + 1
    /\ pc' = IF pc = "check_all" THEN "check_all_body" ELSE "update_all_body"
    /\ UNCHANGED <<argv, disk, settings, count, exit_status, crash, stdout, opened, trace,
                   versionVars, file, ret, mpc>>

\* m = Mod(args.target)
MakeMod ==
    /\ pc \in {"check_one", "update_one"}
    /\ mod' = Mod__init__(argv.target_file)
    /\ idx' = idx + 1
    /\ pc' = IF pc = "check_one" THEN "check_one_body" ELSE "update_one_body"
    /\ UNCHANGED <<argv, disk, settings, count, exit_status, crash, stdout, opened, trace,
                   versionVars, file, ret, mpc>>

\* check all: sum() adds the Mod's check_update()
CheckAllNext ==
    /\ pc = "check_all_body"
    /\ LET cu == check_update(mod)
       IN  /\ stdout' = stdout \o cu.out
           /\ trace' = Append(trace, Seen(mod, cu.ret, FALSE, FALSE))
           /\ IF Raised(cu)
              THEN Uncaught(cu.exc) /\ UNCHANGED count
              ELSE /\ count' = count + (IF cu.ret THEN 1 ELSE 0)
                   /\ pc' = "check_all"
                   /\ UNCHANGED <<exit_status, crash>>
    /\ UNCHANGED <<argv, disk, settings, idx, opened, versionVars, modVars>>

\* check all: the generator is exhausted
CheckAllExit ==
    /\ pc = "check_all"
    /\ idx = Len(find_installed_mods(disk.game_data))
    /\ stdout' = Append(stdout, Line("packages have updates available.", <<>>, <<>>))
    /\ Exit(ExitStatusFor(count))
    /\ UNCHANGED <<argv, disk, settings, idx, count, opened, trace, versionVars, modVars>>

\* check <path>
CheckOne ==
    /\ pc = "check_one_body"
    /\ LET cu == check_update(mod)
       IN  IF mod.exception # NoExc
           THEN /\ stdout' = Append(stdout, Line("Traceback", <<>>, <<>>))
                /\ trace' = Append(trace, Seen(mod, FALSE, FALSE, FALSE))
                /\ Exit(2)
           ELSE /\ stdout' = stdout \o cu.out
                /\ trace' = Append(trace, Seen(mod, cu.ret, FALSE, FALSE))
                /\ IF Raised(cu) THEN Uncaught(cu.exc)
                   ELSE Exit(IF cu.ret THEN 1 ELSE 0)
    /\ UNCHANGED <<argv, disk, settings, idx, count, opened, versionVars, modVars>>

\* update all: the Mod's check_update() shows no update, or raises
UpdateAllSkip ==
    /\ pc = "update_all_body"
    /\ ~check_update(mod).ret
    /\ stdout' = stdout \o check_update(mod).out
    /\ trace' = Append(trace, Seen(mod, FALSE, FALSE, FALSE))
    /\ IF Raised(check_update(mod))
       THEN Uncaught(check_update(mod).exc)
       ELSE pc' = "update_all" /\ UNCHANGED <<exit_status, crash>>
    /\ UNCHANGED <<argv, disk, settings, idx, count, opened, versionVars, modVars>>

\* update all: the Mod's check_update() shows an update, and update() is
\* called
UpdateAllNext ==
    /\ pc = "update_all_body"
    /\ check_update(mod).ret
    /\ \E u \in {update(mod, settings, disk.archives)} :
          /\ stdout' = stdout \o check_update(mod).out \o u.out
          /\ opened' = opened \o u.browser
          /\ disk' = [disk EXCEPT !.archives = u.archives]
          /\ trace' = Append(trace, Seen(mod, TRUE, ~Raised(u) /\ u.ret,
                                         u.archives # disk.archives))
          /\ IF Raised(u)
             THEN Uncaught(u.exc) /\ UNCHANGED count
             ELSE /\ count' = count + (IF ~u.ret THEN 1 ELSE 0)
                  /\ pc' = "update_all"
                  /\ UNCHANGED <<exit_status, crash>>
    /\ UNCHANGED <<argv, settings, idx, versionVars, modVars>>

\* update all: the loop is over
UpdateAllExit ==
    /\ pc = "update_all"
    /\ idx = Len(find_installed_mods(disk.game_data))
    /\ stdout' = IF count # 0
                 THEN Append(stdout, Line("mods need manual intervention.", <<>>, <<>>))
                 ELSE stdout
    /\ Exit(ExitStatusFor(count))
    /\ UNCHANGED <<argv, disk, settings, idx, count, opened, trace, versionVars, modVars>>

\* update <path>: an error, no update, or check_update() raises
UpdateOneSkip ==
    /\ pc = "update_one_body"
    /\ ~check_update(mod).ret
    /\ IF mod.exception # NoExc
       THEN /\ stdout' = Append(stdout, Line("Traceback", <<>>, <<>>))
            /\ Exit(2)
       ELSE /\ stdout' = stdout \o check_update(mod).out
            /\ IF Raised(check_update(mod))
               THEN Uncaught(check_update(mod).exc)
               ELSE Exit(0)
    /\ trace' = Append(trace, Seen(mod, FALSE, FALSE, FALSE))
    /\ UNCHANGED <<argv, disk, settings, idx, count, opened, versionVars, modVars>>

\* update <path>: an update, and update() is called
UpdateOne ==
    /\ pc = "update_one_body"
    /\ check_update(mod).ret
    /\ \E u \in {update(mod, settings, disk.archives)} :
          /\ stdout' = stdout \o check_update(mod).out \o u.out
          /\ opened' = opened \o u.browser
          /\ disk' = [disk EXCEPT !.archives = u.archives]
          /\ trace' = Append(trace, Seen(mod, TRUE, ~Raised(u) /\ u.ret,
                                         u.archives # disk.archives))
          /\ IF Raised(u) THEN Uncaught(u.exc) ELSE Exit(IF u.ret THEN 0 ELSE 1)
    /\ UNCHANGED <<argv, settings, idx, count, versionVars, modVars>>

\* download-to <dir>: the directory is set and the settings are written to
\* PluginData/lwau.json; main returns
DownloadTo ==
    /\ pc = "download_to"
    /\ settings' = SetDownloadDir(settings, argv.target_dir)
    /\ IF disk.plugin_data
       THEN /\ disk' = [disk EXCEPT !.settings_file = [exc |-> NoExc, body |-> settings']]
            /\ Exit(0)
       ELSE /\ Uncaught("FileNotFoundError")
            /\ UNCHANGED disk
    /\ UNCHANGED <<argv, idx, count, stdout, opened, trace, versionVars, modVars>>

Next ==
    \/ Start
    \/ YieldMod
    \/ MakeMod
    \/ CheckAllNext
    \/ CheckAllExit
    \/ CheckOne
    \/ UpdateAllSkip
    \/ UpdateAllNext
    \/ UpdateAllExit
    \/ UpdateOneSkip
    \/ UpdateOne
    \/ DownloadTo

Spec == InitMain /\ [][Next]_vars

-----------------------------------------------------------------------------
(* Properties *)

Fields(v) == <<v.major, v.minor, v.patch, v.build>>

\* x sorts below y: unset below every value, values by size
Below(x, y) ==
    \/ IsNone(x) /\ ~IsNone(y)
    \/ ~IsNone(x) /\ ~IsNone(y) /\ Val(x) < Val(y)

\* a before b in the lexicographic order on (major, minor, patch, build)
LexLess(a, b) ==
    \E i \in 1..NumFields :
        /\ Below(Fields(a)[i], Fields(b)[i])
        /\ \A j \in 1..(i - 1) : Fields(a)[j] = Fields(b)[j]

C2_TotalOrder ==
    vpc = "compared" =>
        /\ vres.lt <=> LexLess(va, vb)
        /\ vres.gt <=> LexLess(vb, va)
        /\ vres.eq <=> va = vb
        /\ Cardinality({k \in {"lt", "eq", "gt"} : vres[k]}) = 1
        /\ \A c \in Versions : (vres.lt /\ VersionLt(vb, c)) => VersionLt(va, c)

\* C2 witness: unset against 0 in the first field: less, not equal, though
\* fuzzily equal
C2_Witness ==
    /\ vpc = "compared"
    /\ IsNone(va.major) /\ vb.major = Some(0)
    /\ vres.lt /\ ~vres.eq /\ ~vres.gt /\ vres.fuzzy

\* C3: the three constructor routes succeed on the same field values
\* (trailing fields unset) and give strictly equal Versions.
C3_RoutesAgree ==
    vpc = "constructed" =>
        /\ ~Raised(vres.byInts) /\ ~Raised(vres.byMapping) /\ ~Raised(vres.byStr)
        /\ VersionEq(vres.byInts.v, vres.byMapping.v)
        /\ VersionEq(vres.byMapping.v, vres.byStr.v)

\* C4: the captured error and the version fields are mutually exclusive:
\* no error and both versions populated, or an error and neither.
C4_ErrorExcludesVersions ==
    mpc \in {"built", "checked"} =>
        \/ /\ mod.exception = NoExc
           /\ {"installed_version", "available_version"} \subseteq mod.attrs
        \/ /\ mod.exception # NoExc
           /\ {"installed_version", "available_version"} \cap mod.attrs = {}

\* C4 as amended: no error and both versions populated, or an error and no
\* available version; the installed version stays populated beside an
\* error exactly when the local manifest loaded and its VERSION parsed.
C4_ErrorExcludesAvailable ==
    mpc \in {"built", "checked"} =>
        /\ \/ /\ mod.exception = NoExc
              /\ {"installed_version", "available_version"} \subseteq mod.attrs
           \/ /\ mod.exception # NoExc
              /\ "available_version" \notin mod.attrs
        /\ (mod.exception # NoExc /\ "installed_version" \in mod.attrs) <=>
              /\ ~Raised(file.local)
              /\ HasKey(file.local.body, "VERSION")
              /\ ~Raised(Version__init__(file.local.body.VERSION))
              /\ \/ ~HasKey(file.local.body, "URL")
                 \/ Raised(json_load_from_url(file.net, MasterUrl))
                 \/ ~HasKey(file.net[MasterUrl].body, "VERSION")
                 \/ Raised(Version__init__(file.net[MasterUrl].body.VERSION))

\* C4 witness: the local manifest parsed, the remote fetch failed
C4_Witness ==
    /\ mpc = "built"
    /\ mod.exception = "URLError"
    /\ "installed_version" \in mod.attrs
    /\ "available_version" \notin mod.attrs

\* the releases listing the API answered with
Listing == file.net[GithubReleasesUrl(ApiUser, ApiRepo)]

Least(S) == CHOOSE i \in S : \A j \in S : i <= j

\* C5: with a GITHUB field the outcome is the GitHub lookup's alone: its
\* URL or none, its diagnostic, no other request, no browser, no message
\* about a missing download page.
C5_GithubAlone ==
    (mpc = "located" /\ HasKey(mod.master_version_data, "GITHUB")) =>
        LET g == find_github_download(mod, None, None)
        IN  ret = Found(g.exc, g.ret, g.out, g.reqs, <<>>)

\* C5 as amended: the DOWNLOAD branch is the fallback of the GITHUB branch.
\* A GitHub lookup that finds an asset (or raises) decides alone.  One that
\* finds none prints its diagnostic and resolution goes on: with a DOWNLOAD
\* field Spacedock is queried iff the URL contains "spacedock" and names a
\* mod id, the GitHub lookup is not repeated from the URL, and a normal
\* return without an archive has opened the page in the browser; without a
\* DOWNLOAD field the "did not specify a download page" line follows.
C5_DownloadIsFallback ==
    (mpc = "located" /\ HasKey(mod.master_version_data, "GITHUB")) =>
        LET g    == find_github_download(mod, None, None)
            md   == mod.master_version_data
            sdq  == {i \in 1..Len(ret.reqs) : ret.reqs[i] = SpacedockModUrl("123")}
            ghq  == {i \in 1..Len(ret.reqs) : ret.reqs[i] = GithubReleasesUrl(ApiUser, ApiRepo)}
        IN  /\ (Raised(g) \/ ~IsNone(g.ret)) =>
                  ret = Found(g.exc, g.ret, g.out, g.reqs, <<>>)
            /\ (~Raised(g) /\ IsNone(g.ret) /\ HasKey(md, "DOWNLOAD")) =>
                  /\ SubSeq(ret.out, 1, Len(g.out)) = g.out
                  /\ Cardinality(ghq) = 1
                  /\ (sdq # {}) <=> (/\ Contains(UrlWords(md.DOWNLOAD), <<"spacedock">>)
                                     /\ Len(md.DOWNLOAD.path) >= 2)
                  /\ (~Raised(ret) /\ IsNone(ret.archive_url)) =>
                        ret.browser = <<md.DOWNLOAD>>
                  /\ ~IsNone(ret.archive_url) => ~Raised(ret) /\ sdq # {}
            /\ (~Raised(g) /\ IsNone(g.ret) /\ ~HasKey(md, "DOWNLOAD")) =>
                  ret = Found(NoExc, None,
                              g.out \o <<Line("did not specify a download page.", <<>>, <<>>)>>,
                              g.reqs, <<>>)

\* C5 witness: GITHUB present, no tag matched, and the Spacedock API was
\* queried for the DOWNLOAD page
C5_Witness ==
    /\ mpc = "located"
    /\ HasKey(mod.master_version_data, "GITHUB")
    /\ Len(ret.out) > 0 /\ ret.out[1].msg = "GitHub: No tag matching"
    /\ \E i \in 1..Len(ret.reqs) : ret.reqs[i] = SpacedockModUrl("123")

\* C6: the lookup returns the URL of the first .zip asset of the first
\* release whose tag contains the version string; none, with a diagnostic,
\* when no tag contains it, and none when that first release has no .zip
\* asset, whatever later releases hold.
C6_FirstReleaseFirstZip ==
    (mpc = "github" /\ ~Raised(Listing) /\ Listing.json) =>
        LET rels    == Listing.body
            wanted  == VersionStr(mod.available_version)
            tagged  == {i \in 1..Len(rels) : Contains(rels[i].tag_name, wanted)}
        IN  /\ ~Raised(ret)
            /\ IF tagged = {}
               THEN /\ IsNone(ret.ret)
                    /\ ret.out = <<Line("GitHub: No tag matching", wanted, <<>>)>>
               ELSE LET as   == rels[Least(tagged)].assets
                        zips == {j \in 1..Len(as) : EndsWith(as[j].name, ZipSuffix)}
                    IN  IF zips = {}
                        THEN /\ IsNone(ret.ret)
                             /\ Len(ret.out) = 1
                             /\ ret.out[1].msg = "GitHub: No .zip archive for release"
                        ELSE ret.ret = Some(as[Least(zips)].browser_download_url)

\* C6 witness: version 2.1.0, a first release tagged v2.1.0 without a .zip
\* asset, a second one tagged v2.1.0 with one: no URL
C6_Witness ==
    /\ mpc = "github"
    /\ ~Raised(Listing) /\ Listing.json
    /\ Len(Listing.body) = 2
    /\ Listing.body[1] = [tag_name |-> Str_v210, assets |-> <<Txt>>]
    /\ Listing.body[2] = [tag_name |-> Str_v210, assets |-> <<ZipA>>]
    /\ mod.available_version = MkVersion(Some(2), Some(1), Some(0), None)
    /\ IsNone(ret.ret)

\* C6 witness of the example: 2.1.0 against the tag v2.1.0 with one .zip
C6_WitnessFound ==
    /\ mpc = "github"
    /\ ~Raised(Listing) /\ Listing.json
    /\ Listing.body = <<[tag_name |-> Str_v210, assets |-> <<ZipA>>]>>
    /\ mod.available_version = MkVersion(Some(2), Some(1), Some(0), None)
    /\ ret.ret = Some(ZipA.browser_download_url)

\* the version list the Spacedock API answered with
SdListing == file.net[SpacedockModUrl("123")]

\* C7: without a GITHUB field and with a DOWNLOAD URL containing
\* "spacedock", the lookup returns the URL built from the download_path of
\* the first entry whose friendly_version fuzzy-equals the available
\* version, and no URL with a diagnostic when there is none.
C7_SpacedockFirstFuzzyEqual ==
    (/\ mpc = "spacedock"
     /\ ~HasKey(mod.master_version_data, "GITHUB")
     /\ mod.master_version_data.DOWNLOAD = SpacedockPage
     /\ ~Raised(SdListing)) =>
        LET vs   == SdListing.body
            same == {i \in 1..Len(vs) :
                        fuzzy_equals(mod.available_version,
                                     VersionFromStr(vs[i].friendly_version).v)}
        IN  /\ ~Raised(ret)
            /\ IF same = {}
               THEN /\ IsNone(ret.ret)
                    /\ Len(ret.out) = 1
                    /\ ret.out[1].msg = "No Spacedock download for version"
               ELSE ret.ret = Some(MkUrl("http", <<"spacedock", "info">>,
                                         vs[Least(same)].download_path))

\* the manifests the run is to process: those of the walk, or the target
Manifests ==
    IF argv.target = "all" THEN find_installed_mods(disk.game_data)
    ELSE <<argv.target_file>>

\* the manifest's Mod captures an error
HasError(f) == Mod__init__(f).exception # NoExc

\* the manifest's Mod captures no error and its available version is
\* strictly after the installed one
UpdateAvailable(f) ==
    /\ ~HasError(f)
    /\ LexLess(Mod__init__(f).installed_version, Mod__init__(f).available_version)

ApiRequestFails(f) == find_download(Mod__init__(f)).exc \in {"URLError", "ValueError"}

\* C9: a failed API request during download resolution never aborts
\* `update all`: the mod is counted as needing manual intervention, every
\* remaining manifest is processed, no exception leaves main, and the
\* process exits through sys.exit with status 1.
C9_ResolutionFailureContained ==
    (argv.verb = "update" /\ argv.target = "all" /\ pc = "exited") =>
        \A i \in 1..Len(trace) :
            (trace[i].update_available /\ ApiRequestFails(Manifests[i])) =>
                /\ crash = NoExc
                /\ Len(trace) = Len(Manifests)
                /\ count >= 1
                /\ exit_status = Some(1)

\* C10: with no captured error, `update` exits 0 iff every processed mod
\* is up to date or had its archive resolved and saved, and 1 iff some mod
\* with an update available had nothing saved.
C10_UpdateExitStatus ==
    (/\ argv.verb = "update"
     /\ pc = "exited"
     /\ \A i \in 1..Len(Manifests) : ~HasError(Manifests[i])) =>
        LET unhandled == {i \in 1..Len(trace) :
                             trace[i].update_available /\ ~trace[i].saved}
            waiting   == {i \in (Len(trace) + 1)..Len(Manifests) :
                             UpdateAvailable(Manifests[i])}
        IN  /\ exit_status = Some(0) <=> (unhandled \cup waiting = {})
            /\ exit_status = Some(1) <=> (unhandled \cup waiting # {})

====
